---- MODULE Spec2Model ----
(***************************************************************************)
(* zoobench: the benchmark engine of src/src/bench.rs as a state machine.  *)
(* The main thread runs bench(): prepare, then do_bench(do_tps_bench),     *)
(* then do_bench(do_qps_bench).  Every worker thread spawned by do_bench   *)
(* is a process of its own.  The ZooKeeper service is the environment: a   *)
(* tree of nodes keyed by path strings, whose calls answer from the state  *)
(* of the tree or fail with an injected fault.                             *)
(***************************************************************************)
EXTENDS Integers, Sequences, FiniteSets, TLC

\* ------------------------------------------------------------------ bounds
MaxIter == 4
MaxThreads == 3
\* how often the preparation harness calls prepare
MaxPrepare == 2
\* durations of a phase run up to MaxTicks half seconds
MaxTicks == 4

\* ----------------------------------------------------------------- strings
\* A string is a sequence of one-character strings.
Slash == "/"
Root == <<"/">>
Digits == <<"0", "1", "2", "3", "4", "5", "6", "7", "8", "9">>

\* i.to_string(): the decimal rendering, no padding
RECURSIVE to_string(_)
to_string(n) ==
    IF n < 10 THEN <<Digits[n + 1]>>
    ELSE to_string(n \div 10) \o <<Digits[(n % 10) + 1]>>

\* the literal of format!("{}/test-node", prefix)
TestNodeLit == <<"/", "t", "e", "s", "t", "-", "n", "o", "d", "e">>

\* str::split("/"): the pieces between the separators, empty pieces kept
RECURSIVE SplitFrom(_, _, _)
SplitFrom(s, k, cur) ==
    IF k > Len(s) THEN <<cur>>
    ELSE IF s[k] = Slash THEN <<cur>> \o SplitFrom(s, k + 1, <<>>)
    ELSE SplitFrom(s, k + 1, Append(cur, s[k]))

split(s) == SplitFrom(s, 1, <<>>)

\* skip_last: the scan holds one item back; every further item releases the
\* one held, so the last item is never yielded
RECURSIVE SkipScan(_, _, _)
SkipScan(items, k, state) ==
    IF k > Len(items) THEN <<>>
    ELSE <<state>> \o SkipScan(items, k + 1, items[k])

\* mutant: nothing is held back, the last item is yielded too
skip_last_keep(items) == items

skip_last(items) ==
    IF items = <<>> THEN <<>> ELSE SkipScan(items, 2, items[1])

\* --------------------------------------------------------------- rates
RECURSIVE Gcd(_, _)
Gcd(a, b) == IF b = 0 THEN a ELSE Gcd(b, a % b)

\* a rate not computed yet
NoRate == [num |-> 0, den |-> 0]

\* mutant: the duration is taken in milliseconds
RatePerMilli(n, ms) ==
    LET g == Gcd(n, ms)
    IN IF g = 0 THEN NoRate ELSE [num |-> n \div g, den |-> ms \div g]

\* opt.iteration as f32 / elapsed.as_secs_f32(): n over ms / 1000, kept as
\* the fraction in lowest terms (f32 rounds it to 24 significant bits; the
\* quotients that are integers below 2^24 are not changed by that). A zero
\* duration gives the infinity n / 0, or NaN for n = 0.
Rate(n, ms) ==
    LET g == Gcd(n * 1000, ms)
    IN IF g = 0 THEN NoRate
       ELSE [num |-> (n * 1000) \div g, den |-> ms \div g]

\* ------------------------------------------------- the remote service (tree)
\* tree: a function from the paths of the existing nodes to their owner, the
\* session of an ephemeral node or NoOwner for a persistent one.
NoOwner == <<"none", 0>>

\* position of the last "/" of a string, 0 when it has none
RECURSIVE LastSlash(_, _)
LastSlash(p, k) ==
    IF k = 0 THEN 0 ELSE IF p[k] = Slash THEN k ELSE LastSlash(p, k - 1)

ParentOf(p) ==
    LET k == LastSlash(p, Len(p))
    IN IF k <= 1 THEN Root ELSE SubSeq(p, 1, k - 1)

\* a path the service accepts: absolute, no empty segment, no trailing "/"
ValidPath(p) ==
    /\ Len(p) >= 2
    /\ p[1] = Slash
    /\ p[Len(p)] # Slash
    /\ \A k \in 1..(Len(p) - 1) : ~(p[k] = Slash /\ p[k + 1] = Slash)

NodeExists(t, p) == p = Root \/ p \in DOMAIN t

\* q is p or lies below p
InSubtree(p, q) ==
    /\ Len(q) >= Len(p)
    /\ SubSeq(q, 1, Len(p)) = p
    /\ (Len(q) > Len(p) => q[Len(p) + 1] = Slash)

Below(p, q) == InSubtree(p, q) /\ q # p

\* Session.createNode: the answer the tree gives
ZkCreateResult(t, p) ==
    IF ~ValidPath(p) THEN "BadArguments"
    ELSE IF p \in DOMAIN t THEN "NodeExists"
    ELSE IF ~NodeExists(t, ParentOf(p)) THEN "NoNode"
    ELSE IF ParentOf(p) # Root /\ t[ParentOf(p)] # NoOwner
         THEN "NoChildrenForEphemerals"
    ELSE "Ok"

ZkCreate(t, p, owner) ==
    [q \in DOMAIN t \cup {p} |-> IF q = p THEN owner ELSE t[q]]

\* Session.deleteSubtree
ZkDeleteResult(t, p) ==
    IF ~ValidPath(p) THEN "BadArguments"
    ELSE IF p \notin DOMAIN t THEN "NoNode"
    ELSE "Ok"

ZkDeleteRecursive(t, p) ==
    [q \in {r \in DOMAIN t : ~InSubtree(p, r)} |-> t[q]]

\* Session.readNodeData
ZkGetDataResult(t, p) ==
    IF ~ValidPath(p) THEN "BadArguments"
    ELSE IF p \notin DOMAIN t THEN "NoNode"
    ELSE "Ok"

\* the end of a session deletes the ephemeral nodes it owns
ZkCloseSession(t, sid) ==
    [q \in {r \in DOMAIN t : t[r] # sid} |-> t[q]]

\* an injected failure of a remote call (network error)
Fault == "ConnectionLoss"

\* ------------------------------------------------------------------- state
VARIABLES
    opt,        \* BenchOption, read-only after construction
    clock,      \* what Instant::elapsed will measure, per phase, in ms
    tree,       \* the service's namespace
    sess,       \* sessions opened so far: id -> [open, auth]
    pc,         \* position of the main thread
    s,          \* prepare: the accumulated path
    seg,        \* prepare: number of segments of the walk consumed
    plog,       \* prepare: the remote calls issued, in order
    prepRes,    \* what prepare returned
    prepCalls,  \* number of prepare calls started
    tree0,      \* the tree when the current prepare call started
    tree1,      \* the tree when the previous prepare call returned
    phase,      \* the phase do_bench runs: "tps" or "qps"
    spawned,    \* do_bench: workers spawned
    joined,     \* do_bench: workers joined
    is_err,     \* do_bench: the aggregate failure flag
    dbRes,      \* what do_bench returned, per phase
    elapsed,    \* bench: its two bindings of elapsed, per phase, in ms
    w,          \* workers: phase -> tid -> [pc, i, res, log]
    result,     \* what bench returned
    tps,        \* bench: writes per second, a fraction [num, den]
    qps         \* bench: reads per second, a fraction [num, den]

vars == <<opt, clock, tree, sess, pc, s, seg, plog, prepRes, prepCalls,
          tree0, tree1, phase, spawned, joined, is_err, dbRes, elapsed, w,
          result, tps, qps>>

prepVars == <<s, seg, plog, prepRes, prepCalls, tree0, tree1>>
benchVars ==
    <<phase, spawned, joined, is_err, dbRes, elapsed, w, result, tps, qps>>

Phases == {"tps", "qps"}
Tids == 0..(opt.threads - 1)

PrepSid == <<"prepare", prepCalls>>
WorkerSid(ph, t) == <<ph, t>>

\* From<Cli> for BenchOption
BenchOptionFrom(c) ==
    [iteration |-> c.iteration,
     threads |-> c.threads,
     ephemeral |-> c.ephemeral,
     prefix |-> c.prefix,
     node_path_template |-> c.prefix \o TestNodeLit,
     digest |-> c.digest]

\* ------------------------------------------------------------ initial states
PA == <<"/", "a">>
PAB == <<"/", "a", "/", "b">>
Prefixes == {PA, PAB}

NodePath(prefix, i) == (prefix \o TestNodeLit) \o to_string(i)

\* nodes a earlier run may have left behind
Universe == {PA, PAB, NodePath(PA, 0), NodePath(PAB, 0), NodePath(PAB, 1)}

ParentClosed(S) == \A p \in S : ParentOf(p) = Root \/ ParentOf(p) \in S

PersistentTree(S) == [p \in S |-> NoOwner]

AllTrees == {PersistentTree(S) : S \in {T \in SUBSET Universe : ParentClosed(T)}}

\* a clean service, or the leftovers of an earlier run on the same prefix
RunTrees(prefix) ==
    {PersistentTree({}),
     PersistentTree({p \in Universe : InSubtree(p, prefix)}
                    \cup {NodePath(prefix, 0), NodePath(prefix, 1)})}

\* the default of --iteration
DefaultIteration == 1000

\* durations a phase may take, in ms: multiples of half a second
Durations == {500 * k : k \in 1..MaxTicks}

\* a clock that measures one second for each phase
SteadyClock == [ph \in Phases |-> 1000]

InitWith(clis, trees) ==
    /\ \E c \in clis :
         /\ opt = BenchOptionFrom(c)
         /\ tree \in trees
    /\ tree0 = tree
    /\ tree1 = tree
    /\ sess = [x \in {} |-> 0]
    /\ pc = "prepare_connect"
    /\ s = <<>>
    /\ seg = 0
    /\ plog = <<>>
    /\ prepRes = "none"
    /\ prepCalls = 1
    /\ phase = "tps"
    /\ spawned = 0
    /\ joined = 0
    /\ is_err = FALSE
    /\ dbRes = [ph \in Phases |-> "none"]
    /\ w = [ph \in Phases |-> [t \in 0..(opt.threads - 1) |->
              [pc |-> "idle", i |-> 0, res |-> "none", log |-> <<>>]]]
    /\ result = [kind |-> "none", err |-> "none"]
    /\ elapsed = [ph \in Phases |-> 0]
    /\ tps = NoRate
    /\ qps = NoRate

\* ------------------------------------------------------------------ prepare
OpenSession(sid) == sess' = sess @@ (sid :> [open |-> TRUE, auth |-> FALSE])
DropSession(sid) == sess' = [sess EXCEPT ![sid].open = FALSE]

\* prepare returns: zk goes out of scope
PrepareReturn(res, t) ==
    /\ pc' = "prepare_ret"
    /\ prepRes' = res
    /\ DropSession(PrepSid)
    /\ tree' = ZkCloseSession(t, PrepSid)

\* what a delete_recursive that failed on the way may have left: some of the
\* subtree deleted, children before their parents
PartialDeletes(t, p) ==
    {[q \in DOMAIN t \ D |-> t[q]] :
        D \in {E \in SUBSET {r \in DOMAIN t : InSubtree(p, r)} :
                 \A r \in E : \A c \in DOMAIN t : Below(r, c) => c \in E}}

\* ZooKeeper::connect(...)?
PrepareConnect ==
    /\ pc = "prepare_connect"
    /\ \E fault \in BOOLEAN :
         /\ plog' = Append(plog, [op |-> "connect", path |-> <<>>,
                                  res |-> IF fault THEN Fault ELSE "Ok"])
         /\ IF fault
            THEN /\ pc' = "prepare_ret"
                 /\ prepRes' = Fault
                 /\ UNCHANGED sess
            ELSE /\ pc' = "prepare_auth"
                 /\ OpenSession(PrepSid)
                 /\ UNCHANGED prepRes
    /\ UNCHANGED <<opt, clock, tree, s, seg, prepCalls, tree0, tree1>>
    /\ UNCHANGED benchVars

\* match &opt.digest
PrepareAuth ==
    /\ pc = "prepare_auth"
    /\ \/ /\ opt.digest
          /\ \E fault \in BOOLEAN :
               /\ plog' = Append(plog, [op |-> "add_auth", path |-> <<>>,
                                        res |-> IF fault THEN Fault ELSE "Ok"])
               /\ IF fault
                  THEN PrepareReturn(Fault, tree)
                  ELSE /\ sess' = [sess EXCEPT ![PrepSid].auth = TRUE]
                       /\ pc' = "prepare_delete"
                       /\ UNCHANGED <<prepRes, tree>>
       \/ /\ ~opt.digest
          /\ pc' = "prepare_delete"
          /\ UNCHANGED <<sess, plog, prepRes, tree>>
    /\ UNCHANGED <<opt, clock, s, seg, prepCalls, tree0, tree1>>
    /\ UNCHANGED benchVars

\* mutant: the namespace is not deleted before the walk
PrepareDeleteSkip ==
    /\ pc = "prepare_delete"
    /\ pc' = "prepare_loop"
    /\ s' = <<>>
    /\ seg' = 0
    /\ UNCHANGED <<tree, sess, prepRes, plog>>
    /\ UNCHANGED <<opt, clock, prepCalls, tree0, tree1>>
    /\ UNCHANGED benchVars

\* mutant: every error of delete_recursive is tolerated
PrepareDeleteTolerant ==
    /\ pc = "prepare_delete"
    /\ \E fault \in BOOLEAN :
         LET res == IF fault THEN Fault ELSE ZkDeleteResult(tree, opt.prefix)
         IN /\ plog' = Append(plog, [op |-> "delete_recursive",
                                     path |-> opt.prefix, res |-> res])
            /\ tree' \in (IF res = "Ok" THEN {ZkDeleteRecursive(tree, opt.prefix)}
                          ELSE IF fault THEN PartialDeletes(tree, opt.prefix)
                          ELSE {tree})
            /\ pc' = "prepare_loop"
            /\ s' = <<>>
            /\ seg' = 0
            /\ UNCHANGED <<sess, prepRes>>
    /\ UNCHANGED <<opt, clock, prepCalls, tree0, tree1>>
    /\ UNCHANGED benchVars

\* match zk.delete_recursive(opt.prefix.as_str())
PrepareDelete ==
    /\ pc = "prepare_delete"
    /\ \E fault \in BOOLEAN :
         LET res == IF fault THEN Fault ELSE ZkDeleteResult(tree, opt.prefix)
         IN /\ plog' = Append(plog, [op |-> "delete_recursive",
                                     path |-> opt.prefix, res |-> res])
            /\ IF res = "Ok" \/ res = "NoNode"
               THEN /\ tree' = IF res = "Ok"
                               THEN ZkDeleteRecursive(tree, opt.prefix)
                               ELSE tree
                    /\ pc' = "prepare_loop"
                    /\ s' = <<>>
                    /\ seg' = 0
                    /\ UNCHANGED <<sess, prepRes>>
               ELSE /\ \E t \in (IF fault THEN PartialDeletes(tree, opt.prefix)
                                          ELSE {tree}) :
                         PrepareReturn(res, t)
                    /\ UNCHANGED <<s, seg>>
    /\ UNCHANGED <<opt, clock, prepCalls, tree0, tree1>>
    /\ UNCHANGED benchVars

\* the segments the walk visits
PrepareSegments == skip_last(split(opt.node_path_template))

\* mutant: NodeExists is not tolerated by the walk
PrepareLoopStrict ==
    /\ pc = "prepare_loop"
    /\ \/ /\ seg < Len(PrepareSegments)
          /\ PrepareSegments[seg + 1] = <<>>
          /\ seg' = seg + 1
          /\ UNCHANGED <<s, tree, sess, plog, prepRes, pc>>
       \/ /\ seg < Len(PrepareSegments)
          /\ PrepareSegments[seg + 1] # <<>>
          /\ \E fault \in BOOLEAN :
               \E path \in {(s \o <<Slash>>) \o PrepareSegments[seg + 1]} :
               \E res \in {IF fault THEN Fault ELSE ZkCreateResult(tree, path)} :
                  /\ s' = path
                  /\ plog' = Append(plog, [op |-> "create", path |-> path,
                                           data |-> <<>>,
                                           mode |-> "Persistent",
                                           res |-> res])
                  /\ IF res = "Ok"
                     THEN /\ tree' = ZkCreate(tree, path, NoOwner)
                          /\ seg' = seg + 1
                          /\ UNCHANGED <<sess, prepRes, pc>>
                     ELSE /\ PrepareReturn(res, tree)
                          /\ UNCHANGED seg
       \/ /\ seg = Len(PrepareSegments)
          /\ PrepareReturn("Ok", tree)
          /\ UNCHANGED <<s, seg, plog>>
    /\ UNCHANGED <<opt, clock, prepCalls, tree0, tree1>>
    /\ UNCHANGED benchVars

\* one turn of: for p in skip_last(opt.node_path_template.split("/"))
PrepareLoop ==
    /\ pc = "prepare_loop"
    /\ \/ /\ seg < Len(PrepareSegments)
          /\ PrepareSegments[seg + 1] = <<>>
          /\ seg' = seg + 1
          /\ UNCHANGED <<s, tree, sess, plog, prepRes, pc>>
       \/ /\ seg < Len(PrepareSegments)
          /\ PrepareSegments[seg + 1] # <<>>
          /\ \E fault \in BOOLEAN :
               \E path \in {(s \o <<Slash>>) \o PrepareSegments[seg + 1]} :
               \E res \in {IF fault THEN Fault ELSE ZkCreateResult(tree, path)} :
                  /\ s' = path
                  /\ plog' = Append(plog, [op |-> "create", path |-> path,
                                           data |-> <<>>,
                                           mode |-> "Persistent",
                                           res |-> res])
                  /\ IF res = "Ok" \/ res = "NodeExists"
                     THEN /\ tree' = IF res = "Ok"
                                     THEN ZkCreate(tree, path, NoOwner)
                                     ELSE tree
                          /\ seg' = seg + 1
                          /\ UNCHANGED <<sess, prepRes, pc>>
                     ELSE /\ PrepareReturn(res, tree)
                          /\ UNCHANGED seg
       \/ /\ seg = Len(PrepareSegments)
          /\ PrepareReturn("Ok", tree)
          /\ UNCHANGED <<s, seg, plog>>
    /\ UNCHANGED <<opt, clock, prepCalls, tree0, tree1>>
    /\ UNCHANGED benchVars

prepare == PrepareConnect \/ PrepareAuth \/ PrepareDelete \/ PrepareLoop

\* the harness of the preparation property: prepare is called again
PrepareAgain ==
    /\ pc = "prepare_ret"
    /\ prepRes = "Ok"
    /\ prepCalls < MaxPrepare
    /\ prepCalls' = prepCalls + 1
    /\ tree1' = tree
    /\ tree0' = tree
    /\ pc' = "prepare_connect"
    /\ prepRes' = "none"
    /\ plog' = <<>>
    /\ s' = <<>>
    /\ seg' = 0
    /\ UNCHANGED <<opt, clock, tree, sess>>
    /\ UNCHANGED benchVars

Clis(iters, threads, ephs, digests, prefixes) ==
    {[iteration |-> i, threads |-> n, ephemeral |-> e, digest |-> d, prefix |-> p] :
        i \in iters, n \in threads, e \in ephs, d \in digests, p \in prefixes}

InitPrepare ==
    /\ InitWith(Clis({MaxIter}, {MaxThreads}, BOOLEAN, BOOLEAN, Prefixes),
                AllTrees)
    /\ clock = SteadyClock

NextPrepare == prepare \/ PrepareAgain

SpecPrepare == InitPrepare /\ [][NextPrepare]_vars

\* ----------------------------------------------------------------- workers
\* let count = opt.iteration / opt.threads; tid * count..(tid + 1) * count
\* (the products never exceed opt.iteration, so u32 does not wrap)
tps_count == opt.iteration \div opt.threads
tps_range_start(tid) == tid * tps_count
\* mutant: the range runs one index into the next worker's
tps_range_end_off(tid) == (tid + 1) * tps_count + 1

tps_range_end(tid) == (tid + 1) * tps_count

qps_count == opt.iteration \div opt.threads
qps_range_start(tid) == tid * qps_count
qps_range_end(tid) == (tid + 1) * qps_count

\* a worker function returns: its zk goes out of scope
WorkerReturn(ph, tid, res, log) ==
    /\ w' = [w EXCEPT ![ph][tid] = [pc |-> "done", i |-> @.i, res |-> res, log |-> log]]
    /\ DropSession(WorkerSid(ph, tid))

\* ZooKeeper::connect(...)? of a worker
WorkerConnect(ph, tid, start) ==
    /\ w[ph][tid].pc = "connect"
    /\ \E fault \in BOOLEAN :
         IF fault
         THEN /\ w' = [w EXCEPT ![ph][tid].pc = "done", ![ph][tid].res = Fault]
              /\ UNCHANGED sess
         ELSE /\ w' = [w EXCEPT ![ph][tid].pc = "loop", ![ph][tid].i = start]
              /\ OpenSession(WorkerSid(ph, tid))
    /\ UNCHANGED <<opt, clock, tree, pc, phase, spawned, joined, is_err,
                   dbRes, elapsed, result, tps, qps>>
    /\ UNCHANGED prepVars

TpsConnect(tid) == WorkerConnect("tps", tid, tps_range_start(tid))

\* mutant: a failing worker raises the aggregate flag itself
TpsCreateSetsFlag(tid) ==
    LET me == w["tps"][tid]
        sid == WorkerSid("tps", tid)
        path == opt.node_path_template \o to_string(me.i)
        mode == IF opt.ephemeral THEN sid ELSE NoOwner
    IN /\ me.pc = "loop"
       /\ me.i < tps_range_end(tid)
       /\ \E fault \in BOOLEAN :
            LET res == IF fault THEN Fault ELSE ZkCreateResult(tree, path)
                log == Append(me.log, [i |-> me.i, path |-> path, res |-> res])
            IN IF res = "Ok"
               THEN /\ tree' = ZkCreate(tree, path, mode)
                    /\ w' = [w EXCEPT !["tps"][tid].i = me.i + 1,
                                      !["tps"][tid].log = log]
                    /\ UNCHANGED <<sess, is_err>>
               ELSE /\ WorkerReturn("tps", tid, res, log)
                    /\ tree' = ZkCloseSession(tree, sid)
                    /\ is_err' = TRUE
       /\ UNCHANGED <<opt, clock, pc, phase, spawned, joined, dbRes, elapsed,
                      result, tps, qps>>
       /\ UNCHANGED prepVars

\* mutant: the result of create is dropped and the loop goes on
TpsCreateContinue(tid) ==
    LET me == w["tps"][tid]
        sid == WorkerSid("tps", tid)
        path == opt.node_path_template \o to_string(me.i)
        mode == IF opt.ephemeral THEN sid ELSE NoOwner
    IN /\ me.pc = "loop"
       /\ me.i < tps_range_end(tid)
       /\ \E fault \in BOOLEAN :
            LET res == IF fault THEN Fault ELSE ZkCreateResult(tree, path)
                log == Append(me.log, [i |-> me.i, path |-> path, res |-> res])
            IN /\ tree' = IF res = "Ok" THEN ZkCreate(tree, path, mode) ELSE tree
               /\ w' = [w EXCEPT !["tps"][tid].i = me.i + 1,
                                 !["tps"][tid].log = log]
               /\ UNCHANGED sess
       /\ UNCHANGED <<opt, clock, pc, phase, spawned, joined, is_err, dbRes,
                      elapsed, result, tps, qps>>
       /\ UNCHANGED prepVars

\* one turn of the loop of do_tps_bench: zk.create(path, value, acl, mode)?
TpsCreate(tid) ==
    LET me == w["tps"][tid]
        sid == WorkerSid("tps", tid)
        path == opt.node_path_template \o to_string(me.i)
        mode == IF opt.ephemeral THEN sid ELSE NoOwner
    IN /\ me.pc = "loop"
       /\ me.i < tps_range_end(tid)
       /\ \E fault \in BOOLEAN :
            LET res == IF fault THEN Fault ELSE ZkCreateResult(tree, path)
                log == Append(me.log, [i |-> me.i, path |-> path, res |-> res])
            IN IF res = "Ok"
               THEN /\ tree' = ZkCreate(tree, path, mode)
                    /\ w' = [w EXCEPT !["tps"][tid].i = me.i + 1,
                                      !["tps"][tid].log = log]
                    /\ UNCHANGED sess
               ELSE /\ WorkerReturn("tps", tid, res, log)
                    /\ tree' = ZkCloseSession(tree, sid)
       /\ UNCHANGED <<opt, clock, pc, phase, spawned, joined, is_err, dbRes,
                      elapsed, result, tps, qps>>
       /\ UNCHANGED prepVars

\* the loop of do_tps_bench is over: Ok(())
TpsFinish(tid) ==
    /\ w["tps"][tid].pc = "loop"
    /\ ~(w["tps"][tid].i < tps_range_end(tid))
    /\ WorkerReturn("tps", tid, "Ok", w["tps"][tid].log)
    /\ tree' = ZkCloseSession(tree, WorkerSid("tps", tid))
    /\ UNCHANGED <<opt, clock, pc, phase, spawned, joined, is_err, dbRes,
                   elapsed, result, tps, qps>>
    /\ UNCHANGED prepVars

do_tps_bench(tid) == TpsConnect(tid) \/ TpsCreate(tid) \/ TpsFinish(tid)

QpsConnect(tid) == WorkerConnect("qps", tid, qps_range_start(tid))

\* mutant: the result of get_data is dropped and the loop goes on
QpsGetDataContinue(tid) ==
    LET me == w["qps"][tid]
        path == opt.node_path_template \o to_string(me.i)
    IN /\ me.pc = "loop"
       /\ me.i < qps_range_end(tid)
       /\ \E fault \in BOOLEAN :
            LET res == IF fault THEN Fault ELSE ZkGetDataResult(tree, path)
                log == Append(me.log, [i |-> me.i, path |-> path, res |-> res])
            IN /\ w' = [w EXCEPT !["qps"][tid].i = me.i + 1,
                                 !["qps"][tid].log = log]
               /\ UNCHANGED <<sess, tree>>
       /\ UNCHANGED <<opt, clock, pc, phase, spawned, joined, is_err, dbRes,
                      elapsed, result, tps, qps>>
       /\ UNCHANGED prepVars

\* one turn of the loop of do_qps_bench: zk.get_data(path, false)?
QpsGetData(tid) ==
    LET me == w["qps"][tid]
        sid == WorkerSid("qps", tid)
        path == opt.node_path_template \o to_string(me.i)
    IN /\ me.pc = "loop"
       /\ me.i < qps_range_end(tid)
       /\ \E fault \in BOOLEAN :
            LET res == IF fault THEN Fault ELSE ZkGetDataResult(tree, path)
                log == Append(me.log, [i |-> me.i, path |-> path, res |-> res])
            IN IF res = "Ok"
               THEN /\ w' = [w EXCEPT !["qps"][tid].i = me.i + 1,
                                      !["qps"][tid].log = log]
                    /\ UNCHANGED <<sess, tree>>
               ELSE /\ WorkerReturn("qps", tid, res, log)
                    /\ tree' = ZkCloseSession(tree, sid)
       /\ UNCHANGED <<opt, clock, pc, phase, spawned, joined, is_err, dbRes,
                      elapsed, result, tps, qps>>
       /\ UNCHANGED prepVars

\* the loop of do_qps_bench is over: Ok(())
QpsFinish(tid) ==
    /\ w["qps"][tid].pc = "loop"
    /\ ~(w["qps"][tid].i < qps_range_end(tid))
    /\ WorkerReturn("qps", tid, "Ok", w["qps"][tid].log)
    /\ tree' = ZkCloseSession(tree, WorkerSid("qps", tid))
    /\ UNCHANGED <<opt, clock, pc, phase, spawned, joined, is_err, dbRes,
                   elapsed, result, tps, qps>>
    /\ UNCHANGED prepVars

do_qps_bench(tid) == QpsConnect(tid) \/ QpsGetData(tid) \/ QpsFinish(tid)

\* ---------------------------------------------------------------- do_bench
\* do_bench is entered: let mut is_err = false; thread::scope(...)
EnterDoBench(ph) ==
    /\ pc' = "do_bench"
    /\ phase' = ph
    /\ spawned' = 0
    /\ joined' = 0
    /\ is_err' = FALSE

\* for tid in 0..opt.threads: threads.push(s.spawn(move || bench_fn(tid, pb, opt)))
DoBenchSpawn ==
    /\ pc = "do_bench"
    /\ spawned < opt.threads
    /\ w' = [w EXCEPT ![phase][spawned].pc = "connect"]
    /\ spawned' = spawned + 1
    /\ UNCHANGED <<opt, clock, tree, sess, pc, phase, joined, is_err, dbRes,
                   elapsed, result, tps, qps>>
    /\ UNCHANGED prepVars

\* mutant: the join loop is left at the first failed worker
DoBenchJoinFailFast ==
    /\ pc = "do_bench"
    /\ spawned = opt.threads
    /\ joined < opt.threads
    /\ w[phase][joined].pc = "done"
    /\ is_err' = (is_err \/ w[phase][joined].res # "Ok")
    /\ joined' = IF w[phase][joined].res # "Ok" THEN opt.threads ELSE joined + 1
    /\ UNCHANGED <<opt, clock, tree, sess, pc, phase, spawned, dbRes,
                   elapsed, w, result, tps, qps>>
    /\ UNCHANGED prepVars

\* mutant: the handle is polled, not joined: a running worker counts as fine
DoBenchJoinNoWait ==
    /\ pc = "do_bench"
    /\ spawned = opt.threads
    /\ joined < opt.threads
    /\ is_err' = (is_err \/ w[phase][joined].res \notin {"Ok", "none"})
    /\ joined' = joined + 1
    /\ UNCHANGED <<opt, clock, tree, sess, pc, phase, spawned, dbRes,
                   elapsed, w, result, tps, qps>>
    /\ UNCHANGED prepVars

\* mutant: the flag is assigned from each worker, so the last one joined wins
DoBenchJoinLastWins ==
    /\ pc = "do_bench"
    /\ spawned = opt.threads
    /\ joined < opt.threads
    /\ w[phase][joined].pc = "done"
    /\ is_err' = (w[phase][joined].res # "Ok")
    /\ joined' = joined + 1
    /\ UNCHANGED <<opt, clock, tree, sess, pc, phase, spawned, dbRes,
                   elapsed, w, result, tps, qps>>
    /\ UNCHANGED prepVars

\* mutant: the join waits for a result only a successful worker delivers
DoBenchJoinWaitOk ==
    /\ pc = "do_bench"
    /\ spawned = opt.threads
    /\ joined < opt.threads
    /\ w[phase][joined].pc = "done"
    /\ w[phase][joined].res = "Ok"
    /\ is_err' = is_err
    /\ joined' = joined + 1
    /\ UNCHANGED <<opt, clock, tree, sess, pc, phase, spawned, dbRes,
                   elapsed, w, result, tps, qps>>
    /\ UNCHANGED prepVars

\* for t in threads: match t.join().unwrap(); join blocks until the thread ended
DoBenchJoin ==
    /\ pc = "do_bench"
    /\ spawned = opt.threads
    /\ joined < opt.threads
    /\ w[phase][joined].pc = "done"
    /\ is_err' = (is_err \/ w[phase][joined].res # "Ok")
    /\ joined' = joined + 1
    /\ UNCHANGED <<opt, clock, tree, sess, pc, phase, spawned, dbRes,
                   elapsed, w, result, tps, qps>>
    /\ UNCHANGED prepVars

\* mutant: the flag is not looked at
DoBenchReturnAlwaysOk ==
    /\ pc = "do_bench"
    /\ spawned = opt.threads
    /\ joined = opt.threads
    /\ dbRes' = [dbRes EXCEPT ![phase] = "Ok"]
    /\ elapsed' = [elapsed EXCEPT ![phase] = clock[phase]]
    /\ pc' = "do_bench_ret"
    /\ UNCHANGED <<opt, clock, tree, sess, phase, spawned, joined, is_err, w,
                   result, tps, qps>>
    /\ UNCHANGED prepVars

\* if is_err { Err(BenchFailed) } else { Ok(elapsed) }
DoBenchReturn ==
    /\ pc = "do_bench"
    /\ spawned = opt.threads
    /\ joined = opt.threads
    /\ dbRes' = [dbRes EXCEPT ![phase] = IF is_err THEN "BenchFailed" ELSE "Ok"]
    /\ elapsed' = [elapsed EXCEPT ![phase] = clock[phase]]
    /\ pc' = "do_bench_ret"
    /\ UNCHANGED <<opt, clock, tree, sess, phase, spawned, joined, is_err, w,
                   result, tps, qps>>
    /\ UNCHANGED prepVars

do_bench == DoBenchSpawn \/ DoBenchJoin \/ DoBenchReturn

\* ------------------------------------------------------------------- bench
BenchFail(e) ==
    /\ result' = [kind |-> "Err", err |-> e]
    /\ pc' = "done"
    /\ UNCHANGED <<phase, spawned, joined, is_err, tps, qps>>

\* prepare's frame is gone once bench goes on: its locals and the record of
\* its calls are dropped
ForgetPrepare ==
    /\ s' = <<>>
    /\ seg' = 0
    /\ plog' = <<>>
    /\ tree0' = tree
    /\ tree1' = tree

\* mutant: the result of prepare is dropped
BenchPreparedIgnoreErr ==
    /\ pc = "prepare_ret"
    /\ EnterDoBench("tps")
    /\ UNCHANGED <<opt, clock, tree, sess, dbRes, elapsed, w, result, tps,
                   qps>>
    /\ UNCHANGED prepVars

\* prepare(opt)?; let elapsed = do_bench(opt, do_tps_bench)
BenchPrepared ==
    /\ pc = "prepare_ret"
    /\ IF prepRes = "Ok"
       THEN EnterDoBench("tps") /\ ForgetPrepare /\ UNCHANGED <<result, tps,
                                                                qps>>
       ELSE BenchFail(prepRes) /\ UNCHANGED <<s, seg, plog, tree0, tree1>>
    /\ UNCHANGED <<opt, clock, tree, sess, dbRes, elapsed, w, prepRes,
                   prepCalls>>

\* mutant: the result of the write phase is dropped
BenchTpsIgnoreErr ==
    /\ pc = "do_bench_ret"
    /\ phase = "tps"
    /\ EnterDoBench("qps")
    /\ UNCHANGED <<opt, clock, tree, sess, dbRes, elapsed, w, result, tps,
                   qps>>
    /\ UNCHANGED prepVars

\* do_bench(opt, do_tps_bench)?; tps; let elapsed = do_bench(opt, do_qps_bench)
BenchTps ==
    /\ pc = "do_bench_ret"
    /\ phase = "tps"
    /\ IF dbRes["tps"] = "Ok"
       THEN /\ EnterDoBench("qps")
            /\ tps' = Rate(opt.iteration, elapsed["tps"])
            /\ UNCHANGED <<result, qps>>
       ELSE BenchFail(dbRes["tps"])
    /\ UNCHANGED <<opt, clock, tree, sess, dbRes, elapsed, w>>
    /\ UNCHANGED prepVars

\* do_bench(opt, do_qps_bench)?; qps; Ok(BenchResult { elapsed, tps, qps })
BenchQps ==
    /\ pc = "do_bench_ret"
    /\ phase = "qps"
    /\ IF dbRes["qps"] = "Ok"
       THEN /\ qps' = Rate(opt.iteration, elapsed["qps"])
            /\ result' = [kind |-> "Ok", err |-> "none"]
            /\ pc' = "done"
            /\ UNCHANGED <<phase, spawned, joined, is_err, tps>>
       ELSE BenchFail(dbRes["qps"])
    /\ UNCHANGED <<opt, clock, tree, sess, dbRes, elapsed, w>>
    /\ UNCHANGED prepVars

bench == BenchPrepared \/ BenchTps \/ BenchQps

Init ==
    /\ InitWith(Clis(0..MaxIter, 0..MaxThreads, BOOLEAN, BOOLEAN, Prefixes),
                RunTrees(PA) \cup RunTrees(PAB))
    /\ clock = SteadyClock

Next ==
    \/ prepare
    \/ bench
    \/ do_bench
    \/ \E tid \in Tids : do_tps_bench(tid)
    \/ \E tid \in Tids : do_qps_bench(tid)

Spec == Init /\ [][Next]_vars

\* every thread that can take a step eventually takes one, and every remote
\* call it waits for returns
InitFair ==
    /\ InitWith(Clis({MaxIter}, 0..MaxThreads, BOOLEAN, BOOLEAN, {PA}),
                RunTrees(PA))
    /\ clock = SteadyClock

\* the runs whose measured durations vary, on a clean service: a few
\* iterations on up to two workers, and the default number of iterations
\* with no worker, where both phases return at once and the rates are
\* computed from opt.iteration all the same
InitRate ==
    /\ InitWith(Clis({MaxIter}, 0..2, {FALSE}, {FALSE}, {PA})
                  \cup Clis({DefaultIteration}, {0}, {FALSE}, {FALSE}, {PA}),
                {PersistentTree({})})
    /\ clock \in [Phases -> Durations]

SpecRate == InitRate /\ [][Next]_vars

FairSpec == InitFair /\ [][Next]_vars /\ WF_vars(Next)

\* ------------------------------------------------------------------ claims
\* what the log of a worker says
Log(ph, tid) == w[ph][tid].log
Attempted(ph, tid) == {Log(ph, tid)[k].i : k \in 1..Len(Log(ph, tid))}
Failed(ph, tid) == w[ph][tid].res \notin {"none", "Ok"}

\* the range the partitioning rule gives worker tid: [tid*count, (tid+1)*count)
RuleCount == opt.iteration \div opt.threads
RuleRange(tid) == (tid * RuleCount)..((tid + 1) * RuleCount - 1)

\* the ranges the two worker functions compute
TpsAssigned(tid) == tps_range_start(tid)..(tps_range_end(tid) - 1)
QpsAssigned(tid) == qps_range_start(tid)..(qps_range_end(tid) - 1)

EvenConfig == opt.iteration > 0 /\ 1 <= opt.threads /\ opt.threads <= opt.iteration

\* C1: partition coverage. For totalIterations > 0 and 1 <= workerCount <=
\* totalIterations, the ranges of do_tps_bench and of do_qps_bench cover exactly
\* [0, workerCount*count), are pairwise disjoint, range t ends where range t+1
\* begins, and every index a worker attempted lies in its range.
C1_PartitionCoverage ==
    EvenConfig =>
        /\ UNION {TpsAssigned(t) : t \in Tids} = 0..(opt.threads * RuleCount - 1)
        /\ UNION {QpsAssigned(t) : t \in Tids} = 0..(opt.threads * RuleCount - 1)
        /\ \A t1, t2 \in Tids :
             t1 # t2 => /\ TpsAssigned(t1) \cap TpsAssigned(t2) = {}
                        /\ QpsAssigned(t1) \cap QpsAssigned(t2) = {}
        /\ \A t \in Tids :
             t + 1 \in Tids => /\ tps_range_end(t) = tps_range_start(t + 1)
                               /\ qps_range_end(t) = qps_range_start(t + 1)
        /\ \A t \in Tids :
             /\ TpsAssigned(t) = RuleRange(t)
             /\ QpsAssigned(t) = RuleRange(t)
             /\ Attempted("tps", t) \subseteq RuleRange(t)
             /\ Attempted("qps", t) \subseteq RuleRange(t)

\* three workers, a remainder, both phases run to the end
C1_Witness ==
    /\ opt.iteration = 4
    /\ opt.threads = 3
    /\ result.kind = "Ok"
    /\ \A t \in Tids : Attempted("tps", t) = RuleRange(t) /\ Attempted("qps", t) = RuleRange(t)

\* C2 (as claimed): with 1 <= workerCount <= totalIterations, in a phase where no
\* remote call failed every index of [0, totalIterations) was invoked by exactly
\* one worker.
C2_EveryIndexOnce ==
    \A ph \in Phases :
        (EvenConfig /\ dbRes[ph] = "Ok") =>
            \A i \in 0..(opt.iteration - 1) :
                Cardinality({t \in Tids : i \in Attempted(ph, t)}) = 1

\* C3: fail-fast per worker. A failed operation is the last entry of the
\* worker's log, and the worker has returned that failure.
C3_FailFast ==
    \A ph \in Phases : \A t \in Tids :
        \A k \in 1..Len(Log(ph, t)) :
            Log(ph, t)[k].res # "Ok" =>
                /\ k = Len(Log(ph, t))
                /\ w[ph][t].pc = "done"
                /\ w[ph][t].res = Log(ph, t)[k].res
                /\ \A j \in Attempted(ph, t) : j <= Log(ph, t)[k].i

\* a worker failed at an index that is not the last of its range
C3_Witness ==
    \E ph \in Phases : \E t \in Tids :
        /\ Len(Log(ph, t)) >= 1
        /\ Log(ph, t)[Len(Log(ph, t))].res # "Ok"
        /\ Log(ph, t)[Len(Log(ph, t))].i + 1 \in RuleRange(t)
        /\ dbRes[ph] = "BenchFailed"

\* C4: no cross-cancellation. When do_bench has returned, every worker that
\* did not fail has executed the operation, with success, on every index of
\* its full range.
C4_NoCrossCancellation ==
    \A ph \in Phases :
        dbRes[ph] # "none" =>
            \A t \in Tids :
                ~Failed(ph, t) =>
                    /\ w[ph][t].res = "Ok"
                    /\ Attempted(ph, t) = RuleRange(t)
                    /\ \A k \in 1..Len(Log(ph, t)) : Log(ph, t)[k].res = "Ok"

\* the first worker failed; a later one completed a range of two indices
C4_Witness ==
    \E ph \in Phases :
        /\ dbRes[ph] = "BenchFailed"
        /\ opt.threads >= 2
        /\ Failed(ph, 0)
        /\ \E t \in Tids : /\ w[ph][t].res = "Ok"
                           /\ Cardinality(Attempted(ph, t)) >= 2

\* C5: barrier join. do_bench has returned only if every one of the
\* workerCount workers was spawned and has terminated; a terminated worker
\* issues no call.
C5_BarrierJoin ==
    \A ph \in Phases :
        dbRes[ph] # "none" =>
            \A t \in Tids :
                /\ w[ph][t].pc = "done"
                /\ w[ph][t].res # "none"
                /\ (WorkerSid(ph, t) \in DOMAIN sess => ~sess[WorkerSid(ph, t)].open)

\* the worker joined first failed at connect, the last one ran its range
C5_Witness ==
    \E ph \in Phases :
        /\ dbRes[ph] = "BenchFailed"
        /\ opt.threads = MaxThreads
        /\ Failed(ph, 0)
        /\ Log(ph, 0) = <<>>
        /\ Attempted(ph, opt.threads - 1) = RuleRange(opt.threads - 1)
        /\ RuleRange(opt.threads - 1) # {}

\* C6: aggregate outcome. do_bench returns BenchFailed iff at least one worker
\* returned a failure and Ok iff every worker returned Ok, whichever failed.
C6_AggregateOutcome ==
    \A ph \in Phases :
        dbRes[ph] # "none" =>
            /\ dbRes[ph] \in {"Ok", "BenchFailed"}
            /\ dbRes[ph] = "BenchFailed" <=> \E t \in Tids : Failed(ph, t)
            /\ dbRes[ph] = "Ok" <=> \A t \in Tids : w[ph][t].res = "Ok"

\* only the first of several workers failed
C6_Witness ==
    \E ph \in Phases :
        /\ dbRes[ph] = "BenchFailed"
        /\ opt.threads >= 2
        /\ Failed(ph, 0)
        /\ \A t \in Tids \ {0} : w[ph][t].res = "Ok"

\* C7: phase ordering. After a failed write phase no read worker is spawned,
\* no read session or read call exists and no BenchResult is produced; a
\* BenchResult needs prepare, the write phase and the read phase to have
\* succeeded; a read worker runs only when every write worker has terminated.
C7_PhaseOrdering ==
    /\ dbRes["tps"] = "BenchFailed" =>
          /\ \A t \in Tids : w["qps"][t].pc = "idle" /\ Log("qps", t) = <<>>
          /\ \A t \in Tids : WorkerSid("qps", t) \notin DOMAIN sess
          /\ dbRes["qps"] = "none"
          /\ result.kind # "Ok"
    /\ result.kind = "Ok" =>
          prepRes = "Ok" /\ dbRes["tps"] = "Ok" /\ dbRes["qps"] = "Ok"
    /\ (\E t \in Tids : w["qps"][t].pc # "idle") =>
          /\ dbRes["tps"] = "Ok"
          /\ \A t \in Tids : w["tps"][t].pc = "done"

\* bench has returned after a write phase in which a create failed
C7_Witness ==
    /\ pc = "done"
    /\ result = [kind |-> "Err", err |-> "BenchFailed"]
    /\ dbRes["tps"] = "BenchFailed"
    /\ \E t \in Tids : Log("tps", t) # <<>>

\* C8: a failed prepare aborts before benchmarking. bench returns prepare's
\* error, no worker is spawned, and no worker session or call exists.
C8_PrepareFailureAborts ==
    prepRes \notin {"none", "Ok"} =>
        /\ pc \in {"prepare_ret", "done"}
        /\ pc = "done" => result = [kind |-> "Err", err |-> prepRes]
        /\ spawned = 0
        /\ \A ph \in Phases : \A t \in Tids :
             /\ w[ph][t].pc = "idle"
             /\ Log(ph, t) = <<>>
             /\ WorkerSid(ph, t) \notin DOMAIN sess
        /\ \A ph \in Phases : dbRes[ph] = "none"

\* bench has returned the error of a create of the walk
C8_Witness ==
    /\ pc = "done"
    /\ result.kind = "Err"
    /\ prepRes = Fault
    /\ plog[Len(plog)].op = "create"
    /\ opt.threads >= 1

\* no call of the current prepare failed other than with NoNode / NodeExists
NoRemoteFailure ==
    \A k \in 1..Len(plog) : plog[k].res \in {"Ok", "NoNode", "NodeExists"}

\* the node at the prefix exists and has no descendants
EmptyNamespace(t) ==
    /\ opt.prefix \in DOMAIN t
    /\ \A q \in DOMAIN t : ~Below(opt.prefix, q)

\* the nodes below the prefix when the current prepare call started
OldBelow == {q \in DOMAIN tree0 : Below(opt.prefix, q)}

\* C9: idempotent preparation. From any tree, a prepare call whose remote
\* calls fail at most with NoNode / NodeExists returns Ok and leaves the node
\* at the prefix without descendants; a second call in a row leaves the tree
\* the first call left.
C9_IdempotentPrepare ==
    (pc = "prepare_ret" /\ NoRemoteFailure) =>
        /\ prepRes = "Ok"
        /\ EmptyNamespace(tree)
        /\ prepCalls >= 2 => tree = tree1

\* the second call has returned, having met the nodes the first one made
C9_Witness ==
    /\ pc = "prepare_ret"
    /\ prepCalls = 2
    /\ prepRes = "Ok"
    /\ opt.prefix = PAB
    /\ \E k \in 1..Len(plog) : plog[k].op = "delete_recursive" /\ plog[k].res = "Ok"
    /\ \E k \in 1..Len(plog) : plog[k].op = "create" /\ plog[k].res = "NodeExists"
    /\ \E k \in 1..Len(plog) : plog[k].op = "create" /\ plog[k].res = "Ok"

\* C10: pre-existing namespace. Every create of the walk follows a
\* delete_recursive that answered Ok or NoNode, and while the walk runs no
\* node that was below the prefix exists; prepare returns neither NodeExists
\* nor NoNode; after a prepare that returned Ok no node of the old subtree
\* below the prefix remains.
C10_PreExistingNamespace ==
    /\ \A k \in 1..Len(plog) :
         plog[k].op = "create" =>
            \E j \in 1..(k - 1) : /\ plog[j].op = "delete_recursive"
                                  /\ plog[j].res \in {"Ok", "NoNode"}
    /\ pc = "prepare_loop" => OldBelow \cap DOMAIN tree = {}
    /\ prepRes \notin {"NodeExists", "NoNode"}
    /\ (pc = "prepare_ret" /\ prepRes = "Ok") =>
          /\ OldBelow \cap DOMAIN tree = {}
          /\ EmptyNamespace(tree)

\* the first call met test-node entries below the prefix and returned Ok
C10_Witness ==
    /\ pc = "prepare_ret"
    /\ prepRes = "Ok"
    /\ prepCalls = 1
    /\ Cardinality(OldBelow) >= 2
    /\ \E k \in 1..Len(plog) : plog[k].op = "create" /\ plog[k].res = "Ok"

\* C11 (as claimed): with authDigest configured, every worker that invoked an
\* operation had applied the credential to its own session before.
C11_WorkerCredential ==
    opt.digest =>
        \A ph \in Phases : \A t \in Tids :
            Log(ph, t) # <<>> => sess[WorkerSid(ph, t)].auth

\* no remote call failed for a reason other than the state of the tree
NoInjectedFault ==
    /\ prepRes = "Ok"
    /\ \A ph \in Phases : \A t \in Tids :
         /\ w[ph][t].res # Fault
         /\ \A k \in 1..Len(Log(ph, t)) : Log(ph, t)[k].res # Fault

Divides == opt.threads >= 1 /\ opt.iteration >= 1 /\ opt.iteration % opt.threads = 0

\* C12 (as claimed): when workerCount divides totalIterations and no call fails
\* but for the state of the tree, the write phase succeeds, every read finds the
\* node the write phase created, and bench returns a BenchResult, with
\* ephemeralNodes false and true.
C12_CleanRun ==
    (Divides /\ NoInjectedFault) =>
        /\ dbRes["tps"] # "BenchFailed"
        /\ dbRes["qps"] # "BenchFailed"
        /\ \A t \in Tids : \A k \in 1..Len(Log("qps", t)) :
             Log("qps", t)[k].res = "Ok"
        /\ pc = "done" => result.kind = "Ok"

\* C15 (as claimed): is_err is written only when all workers have joined.
C15_WrittenAfterAllJoined ==
    [][is_err' # is_err =>
         /\ joined' = opt.threads
         /\ \A t \in Tids : w[phase][t].pc = "done"]_vars

\* C15 (amended): is_err is written only by the main thread in the join loop,
\* when the worker whose failure it records has terminated and is joined; no
\* worker step writes it, so no two writes are concurrent. Workers joined
\* later may still be running.
C15_WrittenByJoinOnly ==
    [][is_err' # is_err =>
         /\ pc = "do_bench"
         /\ is_err' = TRUE
         /\ joined' = joined + 1
         /\ w' = w
         /\ w[phase][joined].pc = "done"
         /\ Failed(phase, joined)]_vars

\* the flag is up while a worker joined later still runs
C15_Witness ==
    /\ pc = "do_bench"
    /\ is_err
    /\ joined < opt.threads
    /\ \E t \in Tids : t >= joined /\ w[phase][t].pc = "loop" /\ Log(phase, t) # <<>>

\* C16: per-worker order. The k-th call of a worker is on the k-th index of
\* its range, so indices ascend without repetition; every call before the last
\* returned Ok; calls are made on the worker's own opened session.
C16_PerWorkerOrder ==
    \A ph \in Phases : \A t \in Tids :
        /\ \A k \in 1..Len(Log(ph, t)) :
             /\ Log(ph, t)[k].i = t * RuleCount + k - 1
             /\ Log(ph, t)[k].i \in RuleRange(t)
             /\ k < Len(Log(ph, t)) => Log(ph, t)[k].res = "Ok"
        /\ Log(ph, t) # <<>> => WorkerSid(ph, t) \in DOMAIN sess
        /\ w[ph][t].pc = "loop" => /\ WorkerSid(ph, t) \in DOMAIN sess
                                   /\ sess[WorkerSid(ph, t)].open

\* the last worker ran two indices before the first one had connected
C16_Witness ==
    \E ph \in Phases :
        /\ opt.threads >= 2
        /\ w[ph][0].pc = "connect"
        /\ Len(Log(ph, opt.threads - 1)) >= 2
        /\ w[ph][opt.threads - 1].res = "Ok"

\* the worker could not open its session
ConnectFailed(ph, t) ==
    /\ w[ph][t].pc = "done"
    /\ w[ph][t].res = Fault
    /\ WorkerSid(ph, t) \notin DOMAIN sess

\* C18: session errors. A worker whose connect failed issued no call; the
\* phase reports BenchFailed; every sibling was started and, unless it failed
\* itself, ran its whole range.
C18_SessionErrors ==
    \A ph \in Phases : \A t \in Tids :
        ConnectFailed(ph, t) =>
            /\ Log(ph, t) = <<>>
            /\ dbRes[ph] # "none" =>
                 /\ dbRes[ph] = "BenchFailed"
                 /\ \A u \in Tids :
                      /\ w[ph][u].pc = "done"
                      /\ ~Failed(ph, u) => Attempted(ph, u) = RuleRange(u)

\* the middle worker of the read phase could not connect, the others read
C18_Witness ==
    /\ opt.threads = 3
    /\ ConnectFailed("qps", 1)
    /\ dbRes["qps"] = "BenchFailed"
    /\ \A u \in {0, 2} : w["qps"][u].res = "Ok" /\ Attempted("qps", u) # {}

TpsPaths(t) == {Log("tps", t)[k].path : k \in 1..Len(Log("tps", t))}

\* C19: no write-write conflict. No two workers create the same path, no
\* create answers NodeExists or NoNode, and during the write phase the node at
\* the prefix exists as a persistent node.
C19_NoWriteConflict ==
    /\ \A t \in Tids : \A k \in 1..Len(Log("tps", t)) :
         Log("tps", t)[k].res \in {"Ok", Fault}
    /\ \A t1, t2 \in Tids : t1 # t2 => TpsPaths(t1) \cap TpsPaths(t2) = {}
    /\ (phase = "tps" /\ pc = "do_bench") =>
          /\ opt.prefix \in DOMAIN tree
          /\ tree[opt.prefix] = NoOwner

\* two workers are creating at the same time over leftovers of an earlier run
C19_Witness ==
    /\ opt.threads >= 2
    /\ w["tps"][0].pc = "loop" /\ Log("tps", 0) # <<>>
    /\ w["tps"][1].pc = "loop" /\ Log("tps", 1) # <<>>

OkCalls(ph) ==
    {<<t, k>> \in Tids \X (1..MaxIter + 1) :
        k <= Len(Log(ph, t)) /\ Log(ph, t)[k].res = "Ok"}

\* C20 (as claimed): when bench returns a BenchResult, the creates performed
\* and the reads performed each number totalIterations.
C20_CountedWorkDone ==
    (pc = "done" /\ result.kind = "Ok") =>
        /\ Cardinality(OkCalls("tps")) = opt.iteration
        /\ Cardinality(OkCalls("qps")) = opt.iteration


\* ---------------------------------------------------------------------------
\* the create calls prepare has issued, in order
Creates == SelectSeq(plog, LAMBDA e : e.op = "create")

\* the proper ancestors of a path, root-to-leaf, read off the positions of
\* its separators: /s1, /s1/s2, ..., /s1/.../s(n-1)
RECURSIVE AncestorsFrom(_, _)
AncestorsFrom(p, k) ==
    IF k > Len(p) THEN <<>>
    ELSE IF p[k] = Slash
         THEN <<SubSeq(p, 1, k - 1)>> \o AncestorsFrom(p, k + 1)
         ELSE AncestorsFrom(p, k + 1)

Ancestors(p) == AncestorsFrom(p, 2)

Tolerated(res) == res = "Ok" \/ res = "NodeExists"

\* C17: the creates of prepare are, in root-to-leaf order, the proper
\* ancestors /s1, ..., /s1/.../s(n-1) of the template path, each with an empty
\* value and Persistent mode whatever opt.ephemeral is; the template path is
\* never created, the empty leading segment yields no create, every create
\* but the last was answered Ok or NodeExists, a create answered otherwise
\* ends prepare with that error, and a prepare that returns Ok has issued
\* all of them.
C17_PreparePathWalk ==
    LET cs == Creates
        ex == Ancestors(opt.node_path_template)
    IN /\ Len(cs) <= Len(ex)
       /\ \A k \in 1..Len(cs) :
            /\ cs[k].path = ex[k]
            /\ cs[k].path # opt.node_path_template
            /\ cs[k].data = <<>>
            /\ cs[k].mode = "Persistent"
            /\ (k < Len(cs) => Tolerated(cs[k].res))
       /\ (cs # <<>> /\ ~Tolerated(cs[Len(cs)].res)) =>
            (pc = "prepare_ret" /\ prepRes = cs[Len(cs)].res)
       /\ (pc = "prepare_ret" /\ prepRes = "Ok") =>
            (Len(cs) = Len(ex) /\ \A k \in 1..Len(cs) : Tolerated(cs[k].res))

\* an ephemeral configuration whose two-level walk met one existing and one
\* missing ancestor and returned Ok
C17_Witness ==
    /\ pc = "prepare_ret"
    /\ prepRes = "Ok"
    /\ opt.ephemeral
    /\ opt.prefix = PAB
    /\ Len(Creates) = 2
    /\ Creates[1].res = "NodeExists"
    /\ Creates[2].res = "Ok"

\* ---------------------------------------------------------------------------
\* C13: when every thread keeps running and every remote call returns, each
\* do_bench that was entered returns, whatever the number of workers and
\* whichever of them fail, and bench returns a BenchResult or an error.
C13_Termination ==
    /\ (pc = "do_bench") ~> (pc = "do_bench_ret")
    /\ <>(pc = "done" /\ result.kind \in {"Ok", "Err"})

\* bench has returned an error although a sibling of the failed worker ran
\* its whole range
C13_Witness ==
    /\ pc = "done"
    /\ result.kind = "Err"
    /\ opt.threads = MaxThreads
    /\ \E ph \in Phases : \E t, u \in Tids :
         /\ Failed(ph, t)
         /\ w[ph][u].res = "Ok"
         /\ Len(Log(ph, u)) > 0

\* ---------------------------------------------------------------------------
\* r is the quotient of n by ms milliseconds taken in seconds
IsPerSecond(r, n, ms) ==
    /\ r.den > 0
    /\ r.num * ms = n * 1000 * r.den

\* C14: in a BenchResult, tps is opt.iteration divided by the seconds the
\* write phase took and qps is opt.iteration divided by the seconds the read
\* phase took, each from the duration measured for its own phase; 1000
\* iterations in 2.0 seconds are a rate of 500.0.
C14_Throughput ==
    (pc = "done" /\ result.kind = "Ok") =>
        /\ elapsed = clock
        /\ IsPerSecond(tps, opt.iteration, clock["tps"])
        /\ IsPerSecond(qps, opt.iteration, clock["qps"])
        /\ (opt.iteration = 1000 /\ clock["tps"] = 2000) =>
             tps = [num |-> 500, den |-> 1]
        /\ (opt.iteration = 1000 /\ clock["qps"] = 2000) =>
             qps = [num |-> 500, den |-> 1]

\* 1000 iterations, a write phase of 2.0 s and a read phase of 0.5 s
C14_Witness ==
    /\ pc = "done"
    /\ result.kind = "Ok"
    /\ opt.iteration = DefaultIteration
    /\ clock = [ph \in Phases |-> IF ph = "tps" THEN 2000 ELSE 500]
    /\ tps = [num |-> 500, den |-> 1]
    /\ qps = [num |-> 2000, den |-> 1]

====
